---- MODULE Spec2Model ----
(***************************************************************************)
(* Model of trlx/model/accelerate_ppo_model.py: the KL controllers and the *)
(* training loop AcceleratePPOModel.learn() run by NumWorkers parallel     *)
(* worker processes that meet at accelerator.wait_for_everyone().          *)
(***************************************************************************)
EXTENDS Integers, Sequences, FiniteSets, TLC

(* ------------------------------ bounds --------------------------------- *)
NumWorkers == 2
MaxTotalSteps == 2
MaxEpochs == 1
MaxPpoEpochs == 2
MaxRollouts == 2
MaxEvalInterval == 2
EpochCap == 2
MaxUpdates == 2
MaxCurrent == 3
MaxTarget == 2
MaxHorizon == 2
MaxNSteps == 5
MaxGenLen == 3
MaxElems == 2

Workers == 1..NumWorkers
(* An attribute no statement has set yet, or a configuration entry that is
   absent (Python None). *)
None == <<>>
(* self.iter_count and self.epoch before learn() assigns them (lines       *)
(* 172-173): no count yet.                                                 *)
NoCount == -1

(* ------------------------ exact rational numbers ----------------------- *)
(* A rational is <<numerator, denominator>> with denominator > 0, in       *)
(* lowest terms.                                                           *)
Abs(x) == IF x < 0 THEN -x ELSE x

RECURSIVE GCD(_, _)
GCD(a, b) == IF b = 0 THEN a ELSE GCD(b, a % b)

RatNorm(n, d) ==
    LET g == GCD(Abs(n), Abs(d))
        s == IF d < 0 THEN -1 ELSE 1
    IN  <<(s * n) \div g, (s * d) \div g>>

Rat(n) == <<n, 1>>
RatAdd(a, b) == RatNorm(a[1] * b[2] + b[1] * a[2], a[2] * b[2])
RatSub(a, b) == RatNorm(a[1] * b[2] - b[1] * a[2], a[2] * b[2])
RatMul(a, b) == RatNorm(a[1] * b[1], a[2] * b[2])
RatDiv(a, b) == RatNorm(a[1] * b[2], a[2] * b[1])
RatLess(a, b) == a[1] * b[2] < b[1] * a[2]

(* np.clip(x, lo, hi) *)
NpClip(x, lo, hi) == IF RatLess(x, lo) THEN lo ELSE IF RatLess(hi, x) THEN hi ELSE x

(* ------------------------------ KL controllers ------------------------- *)
(* AdaptiveKLController.__init__ *)
AdaptiveKLController(init_kl_coef, target, horizon) ==
    [kind |-> "Adaptive", value |-> init_kl_coef, target |-> target, horizon |-> horizon]

(* FixedKLController.__init__ *)
FixedKLController(kl_coef) ==
    [kind |-> "Fixed", value |-> kl_coef, target |-> None, horizon |-> None]

(* A float that is not a finite number (inf, -inf or nan). *)
NonFinite == <<1, 0>>
IsFinite(x) == x[2] # 0

(* AdaptiveKLController.update, line 32: `current / target` with a Python  *)
(* float over a zero target raises ZeroDivisionError.                      *)
UpdateRaises(ctl, current, n_steps) ==
    ctl.kind = "Adaptive" /\ ctl.target[1] = 0

(* update without the np.clip of line 32. *)
AdaptiveUpdateNoClip(ctl, current, n_steps) ==
    LET proportional_error == RatSub(RatDiv(current, ctl.target), Rat(1))
        mult == RatAdd(Rat(1),
                       RatDiv(RatMul(proportional_error, Rat(n_steps)), ctl.horizon))
    IN  IF ctl.horizon[1] = 0 \/ ~IsFinite(ctl.value)
        THEN [ctl EXCEPT !.value = NonFinite]
        ELSE [ctl EXCEPT !.value = RatMul(@, mult)]

(* AdaptiveKLController.update (for a target other than 0).  np.clip gives *)
(* a numpy float, so dividing by a zero horizon does not raise: mult is    *)
(* inf or nan, and so is the value from then on.                           *)
AdaptiveUpdate(ctl, current, n_steps) ==
    LET target == ctl.target
        proportional_error ==
            NpClip(RatSub(RatDiv(current, target), Rat(1)), <<-1, 5>>, <<1, 5>>)
        mult == RatAdd(Rat(1),
                       RatDiv(RatMul(proportional_error, Rat(n_steps)), ctl.horizon))
    IN  IF ctl.horizon[1] = 0 \/ ~IsFinite(ctl.value)
        THEN [ctl EXCEPT !.value = NonFinite]
        ELSE [ctl EXCEPT !.value = RatMul(@, mult)]

(* A fixed controller whose update scales the value by the steps taken. *)
FixedUpdateScaled(ctl, current, n_steps) ==
    [ctl EXCEPT !.value = RatMul(@, Rat(1 + n_steps))]

(* FixedKLController.update *)
FixedUpdate(ctl, current, n_steps) == ctl

(* kl_ctl.update: dispatch on the controller's class *)
KLUpdate(ctl, current, n_steps) ==
    IF ctl.kind = "Adaptive" THEN AdaptiveUpdate(ctl, current, n_steps)
    ELSE FixedUpdate(ctl, current, n_steps)

(* AcceleratePPOModel.__init__: the controller is chosen by config.method.target *)
MakeKLController(cfg) ==
    IF cfg.target # None
    THEN AdaptiveKLController(cfg.init_kl_coef, cfg.target, cfg.horizon)
    ELSE FixedKLController(cfg.init_kl_coef)

(* ------------------------------ configuration -------------------------- *)
Targets == {None, Rat(1)}

(* What the rollout data make loss() measure.  "uniform": every worker     *)
(* measures the same mean KL; "sharded": the workers' shards differ.       *)
KLProfiles == {"uniform", "sharded"}

Configs ==
    [total_steps   : 0..MaxTotalSteps,
     epochs        : 0..MaxEpochs,
     ppo_epochs    : 0..MaxPpoEpochs,
     num_rollouts  : 0..MaxRollouts,
     batch_size    : {1},
     eval_interval : 1..MaxEvalInterval,
     init_kl_coef  : {<<1, 5>>},
     target        : Targets,
     horizon       : {Rat(1)},
     kl_profile    : KLProfiles]

VARIABLES
    config,      \* the TRLConfig shared by every worker
    pc,          \* pc[w]: where worker w is in learn()
    iter_count,  \* self.iter_count
    epoch,       \* self.epoch
    store,       \* number of rollouts held by self.store
    loader_pos,  \* mini-batches already drawn in the current traversal
    pass_no,     \* passes of range(ppo_epochs) done on the current mini-batch
    mean_kl,     \* self.mean_kl (None while the attribute is unset)
    logs,        \* self.logs: <<mini-batch>> it was written for (None while unset)
    kl_ctl,      \* self.kl_ctl
    arrivals,    \* number of wait_for_everyone() calls worker w has entered
    hist         \* per-worker observation record (what was called, with what)

vars == <<config, pc, iter_count, epoch, store, loader_pos, pass_no, mean_kl,
          logs, kl_ctl, arrivals, hist>>

(* ------------------------------ helpers -------------------------------- *)
(* Mini-batches one traversal of the rollout loader yields for a store of  *)
(* n rollouts: batches of batch_size, the last one possibly short.         *)
NumBatches(n) == (n + config.batch_size - 1) \div config.batch_size

(* Every process takes itself for the main process. *)
IsMainProcessAll(w) == TRUE

(* accelerator.is_main_process: true on exactly one process *)
IsMainProcess(w) == w = 1

(* The loop condition with the two bounds joined by "and". *)
LoopCondAnd(w) ==
    /\ iter_count[w] < config.total_steps
    /\ epoch[w] <= config.epochs

(* The loop condition with a strict epoch bound. *)
LoopCondStrictEpoch(w) ==
    \/ iter_count[w] < config.total_steps
    \/ epoch[w] < config.epochs

(* The loop condition granting one epoch more. *)
LoopCondExtraEpoch(w) ==
    \/ iter_count[w] < config.total_steps
    \/ epoch[w] <= config.epochs + 1

(* learn(): the while condition *)
LoopCond(w) ==
    \/ iter_count[w] < config.total_steps
    \/ epoch[w] <= config.epochs

(* range(ppo_epochs + 1): one pass too many. *)
PassesLeftOffByOne(w) == pass_no[w] <= config.ppo_epochs

(* learn(): range(self.config.method.ppo_epochs) has passes left *)
PassesLeft(w) == pass_no[w] < config.ppo_epochs

(* The evaluation condition without its first-steps disjunct. *)
EvalCondIntervalOnly(w) == iter_count[w] % config.eval_interval = 0

(* post_backward_callback: the condition under which evaluation runs *)
EvalCond(w) ==
    \/ iter_count[w] % config.eval_interval = 0
    \/ iter_count[w] <= config.ppo_epochs

(* update called with ppo_epochs as n_steps. *)
UpdateArgsPpoEpochs(w) == <<mean_kl[w], config.ppo_epochs>>

(* post_backward_callback: the arguments of self.kl_ctl.update *)
UpdateArgs(w) == <<mean_kl[w], config.batch_size>>

(* make_experience given the epoch, not iter_count, as the step hint. *)
MakeExperienceArgsEpoch(w) == <<config.num_rollouts, epoch[w]>>

(* post_epoch_callback: the arguments of self.orch.make_experience *)
MakeExperienceArgs(w) == <<config.num_rollouts, iter_count[w]>>

(* learn() without the wait_for_everyone() of line 206. *)
BarrierOpenNoStepBarrier(w) ==
    \/ pc[w] = "in_wait_step"
    \/ \A v \in Workers : arrivals[v] >= arrivals[w]

(* learn() without the wait_for_everyone() of line 209. *)
BarrierOpenNoEpochBarrier(w) ==
    \/ pc[w] = "in_wait_epoch"
    \/ \A v \in Workers : arrivals[v] >= arrivals[w]

(* accelerator.wait_for_everyone(): a worker inside the call returns once  *)
(* every worker has entered the same call.                                 *)
BarrierOpen(w) == \A v \in Workers : arrivals[v] >= arrivals[w]

(* loss(), lines 105-107: the mean KL between the current policy and the   *)
(* rollout-time policy on the worker's own mini-batch.  It is 0 on the     *)
(* first pass over a mini-batch and grows by one with every further pass   *)
(* over it; under the "sharded" profile worker w measures w - 1 more than  *)
(* worker 1.                                                               *)
MeanKL(w) ==
    Rat(pass_no[w] + (IF config.kl_profile = "sharded" THEN w - 1 ELSE 0))

(* loss(), lines 108-120: whether the loss of the pass about to run is a   *)
(* finite number.  Under the "overflow" profile the policy has moved so    *)
(* far after the first pass over a mini-batch that exp(kl) overflows and   *)
(* the loss of every further pass over it is inf or nan.                   *)
LossFinite(w) == ~(config.kl_profile = "overflow" /\ pass_no[w] >= 1)

(* The operations one optimization pass performs, in program order        *)
(* (lines 187-203).                                                        *)
PassOps ==
    <<"loss", "logs", "zero_grad", "backward", "opt_step", "sched_step", "inc_iter">>

(* self.store.clear_history() *)
ClearHistory(n) == 0

(* self.orch.make_experience(num_rollouts, iter_count) appends num_rollouts *)
(* rollouts to the store.                                                  *)
MakeExperience(n, args) == n + args[1]

(* post_epoch_callback's effect on the store, make_experience first.       *)
StoreAfterPostEpochMakeFirst(w) ==
    ClearHistory(MakeExperience(store[w], <<config.num_rollouts, iter_count[w]>>))

(* post_epoch_callback, lines 125-128: clear_history, then make_experience *)
StoreAfterPostEpoch(w) ==
    MakeExperience(ClearHistory(store[w]), MakeExperienceArgs(w))

(* The operations of post_epoch_callback, in program order (lines 124-128) *)
EpochOps == <<"inc_epoch", "clear_history", "make_experience">>

InitHist ==
    [n_cond      |-> 0,      \* evaluations of the while condition
     last        |-> "construct", \* the operation the worker completed last
     cond_after  |-> <<>>,   \* the operation that preceded each evaluation
     n_traversals|-> 0,      \* traversals of the rollout loader begun
     n_batches   |-> 0,      \* mini-batches drawn since INIT
     batch_passes|-> 0,      \* completed passes over the current mini-batch
     pass_ops    |-> <<>>,   \* operations of the last pass
     n_loss      |-> 0,      \* calls of self.loss
     n_opt       |-> 0,      \* calls of self.opt.step
     n_sched     |-> 0,      \* calls of self.scheduler.step
     kl_rec      |-> <<>>,   \* <<value, mini-batch, pass>> of the last loss() call
     n_updates   |-> 0,      \* calls of kl_ctl.update
     update_args |-> <<>>,   \* arguments of the last call
     update_at   |-> <<0, 0>>, \* <<mini-batch, passes done on it>> at the last call
     n_act       |-> 0,      \* calls of self.act
     n_score     |-> 0,      \* calls of self.orch.score
     log         |-> <<>>,   \* records given to accelerator.log
     n_post_epoch|-> 0,      \* calls of post_epoch_callback
     epoch_at    |-> <<0, 0>>, \* <<mini-batches drawn, mini-batches of the store>>
                             \* of the traversal the last post_epoch_callback ended
     n_clear     |-> 0,      \* calls of store.clear_history
     make_args   |-> <<>>,   \* arguments of each make_experience call
     epoch_ops   |-> <<>>,   \* operations of the last post_epoch_callback
     diverged_at |-> <<>>]   \* <<opt steps, iter_count, updates>> done when the
                             \* first non-finite loss was returned

(* The state after construction and the initial rollout collection: every  *)
(* worker's store holds num_rollouts rollouts.                             *)
Init ==
    /\ config \in Configs
    /\ pc = [w \in Workers |-> "start"]
    /\ iter_count = [w \in Workers |-> NoCount]
    /\ epoch = [w \in Workers |-> NoCount]
    /\ store = [w \in Workers |-> config.num_rollouts]
    /\ loader_pos = [w \in Workers |-> 0]
    /\ pass_no = [w \in Workers |-> 0]
    /\ mean_kl = [w \in Workers |-> None]
    /\ logs = [w \in Workers |-> None]
    /\ kl_ctl = [w \in Workers |-> MakeKLController(config)]
    /\ arrivals = [w \in Workers |-> 0]
    /\ hist = [w \in Workers |-> InitHist]

(* ------------------------------ learn() -------------------------------- *)
(* lines 165-173: create the loader, zero iter_count and epoch *)
LearnInit(w) ==
    /\ pc[w] = "start"
    /\ pc' = [pc EXCEPT ![w] = "while"]
    /\ iter_count' = [iter_count EXCEPT ![w] = 0]
    /\ epoch' = [epoch EXCEPT ![w] = 0]
    /\ hist' = [hist EXCEPT ![w].last = "INIT"]
    /\ UNCHANGED <<config, store, loader_pos, pass_no, mean_kl, logs, kl_ctl,
                   arrivals>>

(* lines 174-178: the condition holds, a traversal of the loader begins *)
LoopContinue(w) ==
    /\ pc[w] = "while"
    /\ LoopCond(w)
    /\ epoch[w] < EpochCap
    /\ pc' = [pc EXCEPT ![w] = "for"]
    /\ loader_pos' = [loader_pos EXCEPT ![w] = 0]
    /\ hist' = [hist EXCEPT ![w].n_cond = @ + 1,
                            ![w].n_traversals = @ + 1,
                            ![w].cond_after = Append(@, hist[w].last),
                            ![w].last = "while"]
    /\ UNCHANGED <<config, iter_count, epoch, store, pass_no, mean_kl, logs,
                   kl_ctl, arrivals>>

(* lines 174-177: the condition fails, learn() returns *)
LoopExit(w) ==
    /\ pc[w] = "while"
    /\ ~LoopCond(w)
    /\ pc' = [pc EXCEPT ![w] = "done"]
    /\ hist' = [hist EXCEPT ![w].n_cond = @ + 1,
                            ![w].cond_after = Append(@, hist[w].last),
                            ![w].last = "while"]
    /\ UNCHANGED <<config, iter_count, epoch, store, loader_pos, pass_no,
                   mean_kl, logs, kl_ctl, arrivals>>

(* lines 178-184: the loader yields the next mini-batch *)
DrawBatch(w) ==
    /\ pc[w] = "for"
    /\ loader_pos[w] < NumBatches(store[w])
    /\ pc' = [pc EXCEPT ![w] = "pass"]
    /\ loader_pos' = [loader_pos EXCEPT ![w] = @ + 1]
    /\ pass_no' = [pass_no EXCEPT ![w] = 0]
    /\ hist' = [hist EXCEPT ![w].n_batches = @ + 1, ![w].batch_passes = 0,
                            ![w].last = "draw"]
    /\ UNCHANGED <<config, iter_count, epoch, store, mean_kl, logs, kl_ctl,
                   arrivals>>

(* lines 186-203, one pass of range(ppo_epochs): self.loss(...) records    *)
(* self.mean_kl (line 107), self.logs is overwritten with this pass's      *)
(* payload, then zero_grad, backward, opt.step, scheduler.step,            *)
(* iter_count += 1                                                         *)
Pass(w) ==
    /\ pc[w] = "pass"
    /\ PassesLeft(w)
    /\ pass_no' = [pass_no EXCEPT ![w] = @ + 1]
    /\ mean_kl' = [mean_kl EXCEPT ![w] = MeanKL(w)]
    /\ logs' = [logs EXCEPT ![w] = <<hist[w].n_batches>>]
    /\ iter_count' = [iter_count EXCEPT ![w] = @ + 1]
    /\ hist' = [hist EXCEPT ![w].n_loss = @ + 1,
                            ![w].n_opt = @ + 1,
                            ![w].n_sched = @ + 1,
                            ![w].batch_passes = @ + 1,
                            ![w].kl_rec = <<MeanKL(w), hist[w].n_batches,
                                            hist[w].batch_passes + 1>>,
                            ![w].pass_ops = PassOps,
                            ![w].diverged_at =
                                IF @ = <<>> /\ ~LossFinite(w)
                                THEN <<hist[w].n_opt, iter_count[w], hist[w].n_updates>>
                                ELSE @,
                            ![w].last = "pass"]
    /\ UNCHANGED <<config, pc, epoch, store, loader_pos, kl_ctl, arrivals>>

(* ------------------------ post_backward_callback ----------------------- *)
(* lines 131-133 when no pass has run yet: self.logs / self.mean_kl are    *)
(* attributes no statement has set, the read raises AttributeError         *)
PostBackwardUnset(w) ==
    /\ pc[w] = "pass"
    /\ ~PassesLeft(w)
    /\ (logs[w] = None \/ mean_kl[w] = None)
    /\ pc' = [pc EXCEPT ![w] = "crashed"]
    /\ hist' = [hist EXCEPT ![w].last = "AttributeError"]
    /\ UNCHANGED <<config, iter_count, epoch, store, loader_pos, pass_no,
                   mean_kl, logs, kl_ctl, arrivals>>

(* The record handed to accelerator.log(stats, step=self.iter_count),      *)
(* lines 149-156; ctl is the controller after the update of line 133.      *)
LogRecord(w, ctl) ==
    [step |-> iter_count[w], batch |-> logs[w][1], kl_coef |-> ctl.value]

(* lines 130-161: update the KL controller; then, on the main process and  *)
(* when the evaluation condition holds: act, score, log                    *)
PostBackwardCallback(w) ==
    /\ pc[w] = "pass"
    /\ ~PassesLeft(w)
    /\ logs[w] # None /\ mean_kl[w] # None
    /\ pc' = [pc EXCEPT ![w] = "wait_step"]
    /\ LET ctl       == KLUpdate(kl_ctl[w], UpdateArgs(w)[1], UpdateArgs(w)[2])
           evaluates == IsMainProcess(w) /\ EvalCond(w)
       IN  /\ kl_ctl' = [kl_ctl EXCEPT ![w] = ctl]
           /\ hist' = [hist EXCEPT
                  ![w].n_updates = @ + 1,
                  ![w].update_args = UpdateArgs(w),
                  ![w].update_at = <<hist[w].n_batches, hist[w].batch_passes>>,
                  ![w].n_act = IF evaluates THEN @ + 1 ELSE @,
                  ![w].n_score = IF evaluates THEN @ + 1 ELSE @,
                  ![w].log = IF evaluates THEN Append(@, LogRecord(w, ctl)) ELSE @,
                  ![w].last = IF evaluates THEN "eval" ELSE "no_eval"]
    /\ UNCHANGED <<config, iter_count, epoch, store, loader_pos, pass_no,
                   mean_kl, logs, arrivals>>

(* -------------------------- post_epoch_callback ------------------------ *)
(* line 178 exhausted, line 208 calls the callback; lines 122-128:         *)
(* epoch += 1, clear_history, make_experience                              *)
PostEpochCallback(w) ==
    /\ pc[w] = "for"
    /\ loader_pos[w] >= NumBatches(store[w])
    /\ pc' = [pc EXCEPT ![w] = "wait_epoch"]
    /\ epoch' = [epoch EXCEPT ![w] = @ + 1]
    /\ store' = [store EXCEPT ![w] = StoreAfterPostEpoch(w)]
    /\ hist' = [hist EXCEPT ![w].n_post_epoch = @ + 1,
                            ![w].epoch_at = <<loader_pos[w], NumBatches(store[w])>>,
                            ![w].n_clear = @ + 1,
                            ![w].make_args = Append(@, MakeExperienceArgs(w)),
                            ![w].epoch_ops = EpochOps,
                            ![w].last = "make_experience"]
    /\ UNCHANGED <<config, iter_count, loader_pos, pass_no, mean_kl, logs,
                   kl_ctl, arrivals>>

(* ---------------------- accelerator.wait_for_everyone ------------------ *)
(* lines 206 and 209: the worker enters the barrier *)
WaitEnter(w) ==
    /\ pc[w] \in {"wait_step", "wait_epoch"}
    /\ pc' = [pc EXCEPT ![w] = IF pc[w] = "wait_step" THEN "in_wait_step"
                                 ELSE "in_wait_epoch"]
    /\ arrivals' = [arrivals EXCEPT ![w] = @ + 1]
    /\ UNCHANGED <<config, iter_count, epoch, store, loader_pos, pass_no,
                   mean_kl, logs, kl_ctl, hist>>

(* the barrier releases the worker: back to line 178, or to line 174 *)
WaitLeave(w) ==
    /\ pc[w] \in {"in_wait_step", "in_wait_epoch"}
    /\ BarrierOpen(w)
    /\ pc' = [pc EXCEPT ![w] = IF pc[w] = "in_wait_step" THEN "for" ELSE "while"]
    /\ hist' = [hist EXCEPT ![w].last = IF pc[w] = "in_wait_step" THEN "POST_STEP"
                                         ELSE "POST_EPOCH"]
    /\ UNCHANGED <<config, iter_count, epoch, store, loader_pos, pass_no,
                   mean_kl, logs, kl_ctl, arrivals>>

Next ==
    \E w \in Workers :
        \/ LearnInit(w)
        \/ LoopContinue(w)
        \/ LoopExit(w)
        \/ DrawBatch(w)
        \/ Pass(w)
        \/ PostBackwardUnset(w)
        \/ PostBackwardCallback(w)
        \/ PostEpochCallback(w)
        \/ WaitEnter(w)
        \/ WaitLeave(w)

Spec == Init /\ [][Next]_vars

(* ------------------- runs in which a loss overflows -------------------- *)
DivergeConfigs ==
    [total_steps   : 0..MaxTotalSteps,
     epochs        : {0},
     ppo_epochs    : 0..MaxPpoEpochs,
     num_rollouts  : 0..MaxRollouts,
     batch_size    : {1},
     eval_interval : {1},
     init_kl_coef  : {<<1, 5>>},
     target        : {Rat(1)},
     horizon       : {Rat(1)},
     kl_profile    : {"overflow"}]

DivergeInit ==
    /\ config \in DivergeConfigs
    /\ pc = [w \in Workers |-> "start"]
    /\ iter_count = [w \in Workers |-> NoCount]
    /\ epoch = [w \in Workers |-> NoCount]
    /\ store = [w \in Workers |-> config.num_rollouts]
    /\ loader_pos = [w \in Workers |-> 0]
    /\ pass_no = [w \in Workers |-> 0]
    /\ mean_kl = [w \in Workers |-> None]
    /\ logs = [w \in Workers |-> None]
    /\ kl_ctl = [w \in Workers |-> MakeKLController(config)]
    /\ arrivals = [w \in Workers |-> 0]
    /\ hist = [w \in Workers |-> InitHist]

DivergeSpec == DivergeInit /\ [][Next]_vars

(* ------------------- runs in which no worker hangs --------------------- *)
LiveConfigs ==
    [total_steps   : 0..MaxTotalSteps,
     epochs        : 0..MaxEpochs,
     ppo_epochs    : 0..MaxPpoEpochs,
     num_rollouts  : 0..MaxRollouts,
     batch_size    : {1},
     eval_interval : {1},
     init_kl_coef  : {<<1, 5>>},
     target        : {None},
     horizon       : {Rat(1)},
     kl_profile    : {"uniform"}]

LiveInit ==
    /\ config \in LiveConfigs
    /\ pc = [w \in Workers |-> "start"]
    /\ iter_count = [w \in Workers |-> NoCount]
    /\ epoch = [w \in Workers |-> NoCount]
    /\ store = [w \in Workers |-> config.num_rollouts]
    /\ loader_pos = [w \in Workers |-> 0]
    /\ pass_no = [w \in Workers |-> 0]
    /\ mean_kl = [w \in Workers |-> None]
    /\ logs = [w \in Workers |-> None]
    /\ kl_ctl = [w \in Workers |-> MakeKLController(config)]
    /\ arrivals = [w \in Workers |-> 0]
    /\ hist = [w \in Workers |-> InitHist]

(* The next statement of worker w's learn() *)
WorkerStep(w) ==
    \/ LearnInit(w)
    \/ LoopContinue(w)
    \/ LoopExit(w)
    \/ DrawBatch(w)
    \/ Pass(w)
    \/ PostBackwardUnset(w)
    \/ PostBackwardCallback(w)
    \/ PostEpochCallback(w)
    \/ WaitEnter(w)
    \/ WaitLeave(w)

(* Every worker is a process of its own that runs learn() statement after  *)
(* statement: a worker that can take its next step eventually takes it.    *)
(* Every step changes pc or pass_no.                                       *)
LiveSpec ==
    LiveInit /\ [][Next]_vars /\ \A w \in Workers : WF_<<pc, pass_no>>(WorkerStep(w))

(* ------------------- the KL controller on its own ---------------------- *)
(* One process constructs its controller as __init__ does and then calls   *)
(* update repeatedly with the same current and n_steps.  The constructors  *)
(* (lines 25-28, 40-41) check nothing, so every number is a possible       *)
(* init_kl_coef, target or horizon.                                        *)
CtlCoefs == {<<-1, 5>>, Rat(0), <<1, 5>>}
CtlTargets == {None} \cup {Rat(t) : t \in -1..MaxTarget}
CtlHorizons == {Rat(h) : h \in -1..MaxHorizon}
CtlCurrents == {Rat(c) : c \in -1..MaxCurrent}

CtlConfigs ==
    [init_kl_coef : CtlCoefs, target : CtlTargets, horizon : CtlHorizons]

CtlInit ==
    /\ config \in CtlConfigs
    /\ kl_ctl = <<MakeKLController(config)>>
    /\ pc = <<"constructed">>
    /\ \E current \in CtlCurrents, n_steps \in 0..MaxNSteps :
           hist = <<[n_updates   |-> 0,
                     update_args |-> <<current, n_steps>>,  \* of every call
                     prev        |-> None]>>   \* the value before the last call
    /\ iter_count = None /\ epoch = None /\ store = None /\ loader_pos = None
    /\ pass_no = None /\ mean_kl = None /\ logs = None /\ arrivals = None

(* self.kl_ctl.update(current, n_steps) returns *)
CtlUpdate ==
    /\ pc[1] = "constructed"
    /\ hist[1].n_updates < MaxUpdates
    /\ ~UpdateRaises(kl_ctl[1], hist[1].update_args[1], hist[1].update_args[2])
    /\ kl_ctl' = <<KLUpdate(kl_ctl[1], hist[1].update_args[1], hist[1].update_args[2])>>
    /\ hist' = [hist EXCEPT ![1].n_updates = @ + 1, ![1].prev = kl_ctl[1].value]
    /\ UNCHANGED <<config, pc, iter_count, epoch, store, loader_pos, pass_no,
                   mean_kl, logs, arrivals>>

(* self.kl_ctl.update(current, n_steps) raises ZeroDivisionError (line 32) *)
CtlUpdateRaises ==
    /\ pc[1] = "constructed"
    /\ hist[1].n_updates < MaxUpdates
    /\ UpdateRaises(kl_ctl[1], hist[1].update_args[1], hist[1].update_args[2])
    /\ pc' = <<"ZeroDivisionError">>
    /\ UNCHANGED <<config, hist, kl_ctl, iter_count, epoch, store, loader_pos,
                   pass_no, mean_kl, logs, arrivals>>

CtlNext == CtlUpdate \/ CtlUpdateRaises

CtlSpec == CtlInit /\ [][CtlNext]_vars

(* ----------------------- loss(): GAE, lines 68-86 ---------------------- *)
(* A batch is two trajectories; all_values and all_rewards are indexed     *)
(* [row][t] with t in 1..gen_len (the source counts t from 0).             *)
BatchRows == {1, 2}
RewardVals == {0, 1}
Discounts == {Rat(0), <<1, 2>>, Rat(1)}

GaeConfigs == [gamma : Discounts, lam : Discounts]

(* The value sequences of length T a row may hold: constant, alternating   *)
(* and rising ones.                                                        *)
ValueRows(T) ==
    {[t \in 1..T |-> 0], [t \in 1..T |-> 1], [t \in 1..T |-> t % 2],
     [t \in 1..T |-> (t + 1) % 2], [t \in 1..T |-> t]}

GaeBatches ==
    UNION {[all_values  : [BatchRows -> ValueRows(T)],
            all_rewards : [BatchRows -> [1..T -> RewardVals]]] : T \in 1..MaxGenLen}

(* lastgaelam starts at 1. *)
LastGaeLamInitOne == Rat(1)

(* line 68: lastgaelam = 0 *)
LastGaeLamInit == Rat(0)

(* line 72: nextvalues *)
NextValues(values, t) == IF t < Len(values) THEN Rat(values[t + 1]) ELSE Rat(0)

(* lines 73-77: delta *)
Delta(cfg, rewards, values, t) ==
    RatSub(RatAdd(Rat(rewards[t]), RatMul(cfg.gamma, NextValues(values, t))),
           Rat(values[t]))

(* lines 71-81: the loop over reversed(range(gen_len)), from position t    *)
(* down; reversed_so_far is advantages_reversed                            *)
RECURSIVE GaeLoop(_, _, _, _, _, _)
GaeLoop(cfg, rewards, values, t, lastgaelam, reversed_so_far) ==
    IF t = 0 THEN reversed_so_far
    ELSE LET new == RatAdd(Delta(cfg, rewards, values, t),
                           RatMul(RatMul(cfg.gamma, cfg.lam), lastgaelam))
         IN  GaeLoop(cfg, rewards, values, t - 1, new, Append(reversed_so_far, new))

(* The list kept in loop order. *)
ReversedKept(seq) == seq

(* line 82: advantages_reversed[::-1] *)
Reversed(seq) == [i \in 1..Len(seq) |-> seq[Len(seq) + 1 - i]]

(* lines 68-82: the advantages of the whole batch, one loop run per row    *)
(* (the source runs the rows side by side as tensor columns)               *)
GaeAdvantages(cfg, batch) ==
    [b \in BatchRows |->
        Reversed(GaeLoop(cfg, batch.all_rewards[b], batch.all_values[b],
                         Len(batch.all_values[b]), LastGaeLamInit, <<>>))]

(* returns = advantages, the baseline left out. *)
ReturnsNoBaseline(advantages, all_values) == advantages

(* line 84: returns = advantages + all_values *)
Returns(advantages, all_values) ==
    [b \in BatchRows |->
        [t \in 1..Len(advantages[b]) |->
            RatAdd(advantages[b][t], Rat(all_values[b][t]))]]

RECURSIVE RatSum(_, _)
RatSum(seq, n) == IF n = 0 THEN Rat(0) ELSE RatAdd(RatSum(seq, n - 1), seq[n])

(* whiten(advantages): subtract the mean over the whole batch and divide   *)
(* by the batch standard deviation.  The result is kept exact: centered    *)
(* holds x - mean, the whitened element being centered / std(centered).    *)
Whiten(x) ==
    LET T      == Len(x[1])
        n      == Rat(Cardinality(BatchRows) * T)
        rowsum == [b \in BatchRows |-> RatSum(x[b], T)]
        mean   == RatDiv(RatAdd(rowsum[1], rowsum[2]), n)
    IN  [centered |-> [b \in BatchRows |-> [t \in 1..T |-> RatSub(x[b][t], mean)]]]

GaeInit ==
    /\ config \in GaeConfigs
    /\ store \in GaeBatches
    /\ pc = "loss"
    /\ hist = [advantages |-> None, returns |-> None]
    /\ iter_count = None /\ epoch = None /\ loader_pos = None /\ pass_no = None
    /\ mean_kl = None /\ logs = None /\ kl_ctl = None /\ arrivals = None

(* lines 68-84: the recurrence, then returns *)
LossGae ==
    /\ pc = "loss"
    /\ LET advantages == GaeAdvantages(config, store)
       IN  hist' = [advantages |-> advantages,
                    returns    |-> Returns(advantages, store.all_values)]
    /\ pc' = "whiten"
    /\ UNCHANGED <<config, store, iter_count, epoch, loader_pos, pass_no,
                   mean_kl, logs, kl_ctl, arrivals>>

(* lines 85-86: advantages = whiten(advantages); detach *)
LossWhiten ==
    /\ pc = "whiten"
    /\ hist' = [hist EXCEPT !.advantages = Whiten(hist.advantages)]
    /\ pc' = "forward"
    /\ UNCHANGED <<config, store, iter_count, epoch, loader_pos, pass_no,
                   mean_kl, logs, kl_ctl, arrivals>>

GaeNext == LossGae \/ LossWhiten

GaeSpec == GaeInit /\ [][GaeNext]_vars

(* -------------------- loss(): value loss, lines 89-103 ----------------- *)
(* The tensors are taken flattened: element i of vpred, all_values and     *)
(* returns belong together.                                                *)
VpredVals == {-1, 0, 1, 2}
OldValueVals == {0, 1}
ReturnVals == {0, 1, 2}
ClipRanges == {0, 1}

Min(a, b) == IF a < b THEN a ELSE b
Max(a, b) == IF a > b THEN a ELSE b

(* clip_by_value(x, tensor_min, tensor_max) *)
ClipByValue(x, tensor_min, tensor_max) == Max(Min(x, tensor_max), tensor_min)

(* The clip range laid around the new prediction. *)
VpredClippedAroundVpred(vpred, all_values, cliprange_value) ==
    [i \in 1..Len(vpred) |->
        ClipByValue(vpred[i], vpred[i] - cliprange_value, vpred[i] + cliprange_value)]

(* lines 95-99: vpredclipped *)
VpredClipped(vpred, all_values, cliprange_value) ==
    [i \in 1..Len(vpred) |->
        ClipByValue(vpred[i], all_values[i] - cliprange_value,
                    all_values[i] + cliprange_value)]

RECURSIVE SumSeq(_, _)
SumSeq(seq, n) == IF n = 0 THEN 0 ELSE SumSeq(seq, n - 1) + seq[n]

(* lines 101-103: vf_loss = 0.5 * mean(max(vf_losses1, vf_losses2)) *)
VfLoss(vpred, vpredclipped, returns) ==
    LET vf_losses1 == [i \in 1..Len(vpred) |-> (vpred[i] - returns[i]) * (vpred[i] - returns[i])]
        vf_losses2 == [i \in 1..Len(vpred) |->
                          (vpredclipped[i] - returns[i]) * (vpredclipped[i] - returns[i])]
        worst      == [i \in 1..Len(vpred) |-> Max(vf_losses1[i], vf_losses2[i])]
    IN  RatNorm(SumSeq(worst, Len(vpred)), 2 * Len(vpred))

VfInit ==
    /\ config \in [cliprange_value : ClipRanges]
    /\ store \in UNION {[all_values : [1..n -> OldValueVals],
                         returns    : [1..n -> ReturnVals]] : n \in 1..MaxElems}
    /\ pc = "forward"
    /\ hist = [vpred |-> None, vpredclipped |-> None, vf_loss |-> None]
    /\ iter_count = None /\ epoch = None /\ loader_pos = None /\ pass_no = None
    /\ mean_kl = None /\ logs = None /\ kl_ctl = None /\ arrivals = None

(* lines 89-103: the forward pass yields some vpred; clip it, take the     *)
(* value loss                                                              *)
LossValue ==
    /\ pc = "forward"
    /\ \E vpred \in [1..Len(store.all_values) -> VpredVals] :
           LET vpredclipped ==
                   VpredClipped(vpred, store.all_values, config.cliprange_value)
           IN  hist' = [vpred        |-> vpred,
                        vpredclipped |-> vpredclipped,
                        vf_loss      |-> VfLoss(vpred, vpredclipped, store.returns)]
    /\ pc' = "done"
    /\ UNCHANGED <<config, store, iter_count, epoch, loader_pos, pass_no,
                   mean_kl, logs, kl_ctl, arrivals>>

VfNext == LossValue

VfSpec == VfInit /\ [][VfNext]_vars

(* ============================== claims ================================= *)
Started(w) == pc[w] # "start"

(* ------------------------------- C1 ------------------------------------ *)
(* C1: the while condition is evaluated only right after INIT and right    *)
(* after a POST_EPOCH (callback and barrier); learn() has returned only if *)
(* iter_count >= total_steps and epoch > epochs; and the outcome of every  *)
(* evaluation is "another traversal" exactly when iter_count < total_steps *)
(* or epoch <= epochs.                                                     *)
C1_LoopTermination ==
    \A w \in Workers :
        /\ \A i \in 1..Len(hist[w].cond_after) :
               hist[w].cond_after[i] = IF i = 1 THEN "INIT" ELSE "POST_EPOCH"
        /\ Started(w) =>
               hist[w].n_cond \in {hist[w].n_post_epoch, hist[w].n_post_epoch + 1}
        /\ pc[w] = "done" =>
               /\ iter_count[w] >= config.total_steps
               /\ epoch[w] > config.epochs
        /\ (hist[w].last = "while" /\ pc[w] = "for") =>
               (iter_count[w] < config.total_steps \/ epoch[w] <= config.epochs)

(* learn() returned after continuing on the step bound alone *)
C1_Witness ==
    \E w \in Workers :
        /\ pc[w] = "done"
        /\ epoch[w] > config.epochs + 1
        /\ hist[w].n_cond >= 3

(* ------------------------------- C2 ------------------------------------ *)
(* C2: when learn() has returned, at least epochs + 1 POST_EPOCH callbacks *)
(* have run, each after a traversal of the loader; with total_steps = 0    *)
(* and epochs = 0 that is at least one traversal and one POST_EPOCH.       *)
C2_AtLeastOneEpoch ==
    \A w \in Workers :
        pc[w] = "done" =>
            /\ hist[w].n_post_epoch >= config.epochs + 1
            /\ hist[w].n_traversals = hist[w].n_post_epoch
            /\ hist[w].n_traversals >= 1
            /\ hist[w].n_batches >= NumBatches(config.num_rollouts)

(* total_steps = 0, epochs = 0: one traversal of a non-empty store, one    *)
(* POST_EPOCH, then termination                                            *)
C2_Witness ==
    \E w \in Workers :
        /\ pc[w] = "done"
        /\ config.total_steps = 0 /\ config.epochs = 0
        /\ hist[w].n_post_epoch = 1
        /\ hist[w].n_batches = 2

(* ------------------------------- C3 ------------------------------------ *)
PassOrder == <<"loss", "backward", "opt_step", "sched_step", "inc_iter">>
IsPassOp(op) == op \in {PassOrder[i] : i \in 1..Len(PassOrder)}

(* The worker is between the last pass over a mini-batch and the draw of   *)
(* the next one (POST_STEP and its barrier).                               *)
AtPostStep(w) ==
    \/ pc[w] \in {"wait_step", "in_wait_step"}
    \/ pc[w] = "pass" /\ pass_no[w] >= config.ppo_epochs

C3_StateInv ==
    \A w \in Workers :
        Started(w) =>
            /\ hist[w].batch_passes <= config.ppo_epochs
            /\ hist[w].n_loss = iter_count[w]
            /\ hist[w].n_opt = iter_count[w]
            /\ hist[w].n_sched = iter_count[w]
            /\ hist[w].n_loss > 0 =>
                   SelectSeq(hist[w].pass_ops, IsPassOp) = PassOrder
            /\ pc[w] = "pass" =>
                   iter_count[w] =
                       config.ppo_epochs * (hist[w].n_batches - 1) + hist[w].batch_passes
            /\ AtPostStep(w) =>
                   /\ hist[w].batch_passes = config.ppo_epochs
                   /\ iter_count[w] = config.ppo_epochs * hist[w].n_batches

C3_Step ==
    \A w \in Workers :
        Started(w) =>
            /\ iter_count'[w] >= iter_count[w]
            /\ iter_count'[w] <= iter_count[w] + 1
            /\ logs'[w] \in {logs[w], <<hist[w].n_batches>>}

(* C3: every mini-batch gets exactly ppo_epochs passes over that same      *)
(* mini-batch, each pass running loss, backward, optimizer step, scheduler *)
(* step, iter_count += 1 in that order; at POST_STEP iter_count equals     *)
(* ppo_epochs times the mini-batches drawn since INIT; iter_count moves    *)
(* only up, by one.                                                        *)
C3_PassesPerBatch == []C3_StateInv /\ [][C3_Step]_vars

(* a POST_STEP in a later epoch, two passes per mini-batch *)
C3_Witness ==
    \E w \in Workers :
        /\ pc[w] = "wait_step"
        /\ config.ppo_epochs = 2
        /\ hist[w].n_batches >= 3
        /\ epoch[w] >= 1

(* ------------------------------- C4 ------------------------------------ *)
(* The arguments of the last update are the mean KL of pass number         *)
(* ppo_epochs over the mini-batch just optimized, and batch_size.          *)
C4_StateInv ==
    \A w \in Workers :
        /\ pc[w] = "crashed" => (config.ppo_epochs = 0 /\ hist[w].n_updates = 0)
        /\ (Started(w) /\ pc[w] # "crashed") =>
            /\ hist[w].n_updates =
                   hist[w].n_batches - (IF pc[w] = "pass" THEN 1 ELSE 0)
            /\ hist[w].n_updates > 0 =>
                   /\ hist[w].update_at = <<hist[w].n_updates, config.ppo_epochs>>
                   /\ hist[w].update_args[2] = config.batch_size
            /\ pc[w] \in {"wait_step", "in_wait_step"} =>
                   hist[w].kl_rec =
                       <<hist[w].update_args[1], hist[w].n_batches, config.ppo_epochs>>

C4_Step ==
    \A w \in Workers :
        kl_ctl'[w] # kl_ctl[w] =>
            /\ pc[w] = "pass" /\ pc'[w] = "wait_step"
            /\ hist'[w].n_updates = hist[w].n_updates + 1

(* C4: the KL coefficient changes only in kl_ctl.update; update is called  *)
(* once per mini-batch, after pass number ppo_epochs and not between       *)
(* passes, with the mean KL that last pass recorded and batch_size.        *)
C4_UpdateOncePerBatch == []C4_StateInv /\ [][C4_Step]_vars

(* an adaptive coefficient that has moved, after two passes per mini-batch *)
C4_Witness ==
    \E w \in Workers :
        /\ pc[w] = "wait_step"
        /\ config.ppo_epochs = 2
        /\ hist[w].n_updates >= 2
        /\ kl_ctl[w].kind = "Adaptive"
        /\ kl_ctl[w].value # config.init_kl_coef

(* ------------------------------- C5 ------------------------------------ *)
(* C5: worker w has a log record (with one act and one score) for exactly  *)
(* the mini-batches k at whose POST_STEP it is the coordinator and         *)
(* iter_count % eval_interval = 0 or iter_count <= ppo_epochs, iter_count  *)
(* being ppo_epochs * k there; so the coordinator has one for k = 1.       *)
C5_EvalIff ==
    \A w \in Workers :
        LET recs   == hist[w].log
            logged == {recs[i].batch : i \in 1..Len(recs)}
            due    == {k \in 1..hist[w].n_updates :
                          /\ w = 1
                          /\ \/ (config.ppo_epochs * k) % config.eval_interval = 0
                             \/ config.ppo_epochs * k <= config.ppo_epochs}
        IN  /\ logged = due
            /\ Len(recs) = Cardinality(due)
            /\ hist[w].n_act = Len(recs)
            /\ hist[w].n_score = Len(recs)
            /\ \A i \in 1..Len(recs) : recs[i].step = config.ppo_epochs * recs[i].batch
            /\ (w = 1 /\ hist[w].n_updates >= 1) => 1 \in logged

(* the coordinator skipped an evaluation after having logged one *)
C5_Witness ==
    /\ pc[1] = "wait_step"
    /\ hist[1].last = "no_eval"
    /\ Len(hist[1].log) >= 1
    /\ hist[2].n_updates >= 2 /\ hist[2].log = <<>>

(* ------------------------------- C6 ------------------------------------ *)
(* post_backward_callback has not returned yet, or has and the worker has  *)
(* not entered the barrier that follows it.                                *)
InPostStep(w) == AtPostStep(w) /\ pc[w] # "in_wait_step"

(* C6: once a worker has run a post_epoch_callback (cleared its store and  *)
(* generated new rollouts) that another worker has not run yet, that other *)
(* worker is neither in POST_STEP nor optimizing a mini-batch.             *)
C6_NoRegenDuringPostStep ==
    \A w, v \in Workers :
        (w # v /\ hist[w].n_post_epoch > hist[v].n_post_epoch) =>
            (~InPostStep(v) /\ pc[v] # "pass")

(* a worker has regenerated its rollouts; the other one finished POST_STEP *)
(* of the last mini-batch and still sits in the barrier                    *)
C6_Witness ==
    \E w, v \in Workers :
        /\ w # v
        /\ pc[w] = "wait_epoch"
        /\ pc[v] = "in_wait_step"
        /\ hist[v].n_updates >= 2
        /\ Len(hist[1].log) >= 1

(* ------------------------------- C7 ------------------------------------ *)
(* C7: every returned callback is followed by one barrier entry; a worker  *)
(* that has drawn mini-batch k+1 implies every worker completed POST_STEP  *)
(* of mini-batch k; a worker that has begun traversal e+1 implies every    *)
(* worker completed POST_EPOCH of epoch e; a worker is past its n-th       *)
(* barrier only if every worker has entered it.                            *)
C7_Barriers ==
    \A w \in Workers :
        /\ arrivals[w] = hist[w].n_updates + hist[w].n_post_epoch
                           - (IF pc[w] \in {"wait_step", "wait_epoch"} THEN 1 ELSE 0)
        /\ \A v \in Workers :
            /\ hist[w].n_batches <= hist[v].n_updates + 1
            /\ hist[w].n_traversals <= hist[v].n_post_epoch + 1
            /\ pc[w] \notin {"in_wait_step", "in_wait_epoch"} =>
                   arrivals[v] >= arrivals[w]

(* a worker blocked in the barrier while another still optimizes the same  *)
(* mini-batch, in the second epoch                                         *)
C7_Witness ==
    \E w, v \in Workers :
        /\ pc[w] = "in_wait_step"
        /\ pc[v] = "pass"
        /\ hist[w].n_batches = hist[v].n_batches
        /\ hist[w].n_traversals = 2
        /\ arrivals[w] > arrivals[v]

(* ------------------------------- C8 ------------------------------------ *)
(* C8: only worker 1 ever calls act, score or log; no mini-batch has more  *)
(* than one log record over all workers; workers at the same barrier or    *)
(* both returned have run the same number of passes, iter_count            *)
(* increments and controller updates.                                      *)
C8_OneCoordinator ==
    /\ \A w \in Workers :
           w # 1 => (hist[w].n_act = 0 /\ hist[w].n_score = 0 /\ hist[w].log = <<>>)
    /\ \A w, v \in Workers :
           \A i \in 1..Len(hist[w].log), j \in 1..Len(hist[v].log) :
               hist[w].log[i].batch = hist[v].log[j].batch => (w = v /\ i = j)
    /\ \A w, v \in Workers :
           (/\ pc[w] = pc[v]
            /\ pc[w] \in {"in_wait_step", "in_wait_epoch", "done"}
            /\ arrivals[w] = arrivals[v]) =>
               /\ iter_count[w] = iter_count[v]
               /\ hist[w].n_loss = hist[v].n_loss
               /\ hist[w].n_opt = hist[v].n_opt
               /\ hist[w].n_updates = hist[v].n_updates

(* all workers returned after the same updates, only worker 1 logged *)
C8_Witness ==
    /\ \A w \in Workers : pc[w] = "done" /\ hist[w].n_updates >= 2
    /\ Len(hist[1].log) >= 2

(* ------------------------------- C9 ------------------------------------ *)
EpochOrder == <<"inc_epoch", "clear_history", "make_experience">>

(* C9: post_epoch_callback runs only with the loader exhausted and every   *)
(* drawn mini-batch fully optimized; it increments epoch by one, clears    *)
(* the store, then calls make_experience(num_rollouts, iter_count), which  *)
(* leaves a store of num_rollouts fresh rollouts, and then the barrier is  *)
(* entered; while a traversal is under way the store has been neither      *)
(* cleared nor refilled since the traversal began.                         *)
C9_PostEpoch ==
    \A w \in Workers :
        Started(w) =>
            /\ epoch[w] = hist[w].n_post_epoch
            /\ hist[w].n_clear = hist[w].n_post_epoch
            /\ Len(hist[w].make_args) = hist[w].n_post_epoch
            /\ hist[w].n_post_epoch > 0 =>
                   /\ hist[w].epoch_at[1] = hist[w].epoch_at[2]
                   /\ hist[w].epoch_ops = EpochOrder
            /\ pc[w] \in {"wait_epoch", "in_wait_epoch"} =>
                   /\ hist[w].make_args[epoch[w]] = <<config.num_rollouts, iter_count[w]>>
                   /\ store[w] = config.num_rollouts
                   /\ hist[w].n_updates = hist[w].n_batches
                   /\ iter_count[w] = config.ppo_epochs * hist[w].n_batches
                   /\ arrivals[w] = hist[w].n_updates + hist[w].n_post_epoch
                                      - (IF pc[w] = "wait_epoch" THEN 1 ELSE 0)
            /\ pc[w] \in {"for", "pass", "wait_step", "in_wait_step"} =>
                   /\ hist[w].n_post_epoch = hist[w].n_traversals - 1
                   /\ store[w] = config.num_rollouts

(* the second POST_EPOCH, after optimization steps *)
C9_Witness ==
    \E w \in Workers :
        /\ pc[w] = "wait_epoch"
        /\ epoch[w] = 2
        /\ iter_count[w] >= 4
        /\ hist[w].make_args[1][2] < hist[w].make_args[2][2]

(* ------------------------------- C10 ----------------------------------- *)
(* C10: workers that have left the barrier after the same POST_STEP hold   *)
(* the same KL coefficient.                                                *)
C10_NoDrift ==
    \A w, v \in Workers :
        (/\ pc[w] = "for" /\ pc[v] = "for"
         /\ hist[w].last = "POST_STEP" /\ hist[v].last = "POST_STEP"
         /\ hist[w].n_updates = hist[v].n_updates) =>
            kl_ctl[w].value = kl_ctl[v].value

(* ------------------------------- C11 ----------------------------------- *)
(* C11: with config.method.target absent every worker's controller is the  *)
(* Fixed one, and whatever updates it has received (their number and their *)
(* arguments) its value is init_kl_coef.                                   *)
C11_FixedConstant ==
    \A w \in Workers :
        config.target = None =>
            /\ kl_ctl[w].kind = "Fixed"
            /\ kl_ctl[w].value = config.init_kl_coef

(* a Fixed controller that received two updates with different mean KL *)
C11_Witness ==
    \E w \in Workers :
        /\ config.target = None
        /\ hist[w].n_updates >= 2
        /\ hist[w].update_args[1] # Rat(0)
        /\ pc[w] = "done"

(* ------------------------------- C12 ----------------------------------- *)
(* 1 + clip(current/target - 1, -0.2, 0.2) * n_steps / horizon *)
C12_Mult(current, target, n_steps, horizon) ==
    LET ratio == <<current[1] * target[2], current[2] * target[1]>>
        err   == <<ratio[1] - ratio[2], ratio[2]>>
        lo    == IF err[2] > 0 THEN 5 * err[1] < -err[2] ELSE 5 * err[1] > -err[2]
        hi    == IF err[2] > 0 THEN 5 * err[1] > err[2] ELSE 5 * err[1] < err[2]
        clip  == IF lo THEN <<-1, 5>> ELSE IF hi THEN <<1, 5>> ELSE err
    IN  RatNorm(clip[2] * horizon[1] + clip[1] * n_steps * horizon[2],
                clip[2] * horizon[1])

(* The claim as stated, for the configurations even a constructor that     *)
(* rejects a zero target and a non-positive horizon accepts: an update     *)
(* with current > target strictly increases the value, one with            *)
(* current < target strictly decreases it, one with current = target       *)
(* leaves it unchanged.                                                    *)
C12_MonotoneAll ==
    LET c       == kl_ctl[1]
        current == hist[1].update_args[1]
        prev    == hist[1].prev
    IN  (c.kind = "Adaptive" /\ hist[1].n_updates > 0 /\ RatLess(Rat(0), c.horizon)) =>
            /\ RatLess(c.target, current) => RatLess(prev, c.value)
            /\ RatLess(current, c.target) => RatLess(c.value, prev)
            /\ current = c.target => c.value = prev

(* C12 (amended): every update multiplies the value by                     *)
(* 1 + clip(current/target - 1, -0.2, 0.2) * n_steps / horizon; for        *)
(* init_coef, target, horizon and n_steps all positive an update with      *)
(* current > target strictly increases the value and one with              *)
(* current < target and a positive multiplier strictly decreases it; an    *)
(* update with current = target leaves the value unchanged.                *)
C12_MonotonePositive ==
    LET c       == kl_ctl[1]
        current == hist[1].update_args[1]
        n_steps == hist[1].update_args[2]
        prev    == hist[1].prev
        mult    == C12_Mult(current, c.target, n_steps, c.horizon)
    IN  (c.kind = "Adaptive" /\ hist[1].n_updates > 0 /\ c.horizon # Rat(0)) =>
            /\ c.value = RatMul(prev, mult)
            /\ c.target = config.target /\ c.horizon = config.horizon
            /\ current = c.target => c.value = prev
            /\ (/\ RatLess(Rat(0), config.init_kl_coef)
                /\ RatLess(Rat(0), c.target)
                /\ RatLess(Rat(0), c.horizon)
                /\ n_steps > 0) =>
                   /\ RatLess(c.target, current) => RatLess(prev, c.value)
                   /\ (RatLess(current, c.target) /\ RatLess(Rat(0), mult)) =>
                          RatLess(c.value, prev)

(* a positive configuration whose observed KL is over the clip range: two  *)
(* updates have raised the value by 1.2 * 1.2                              *)
C12_Witness ==
    /\ kl_ctl[1].kind = "Adaptive"
    /\ config.init_kl_coef = <<1, 5>>
    /\ config.target = Rat(1) /\ config.horizon = Rat(1)
    /\ hist[1].update_args = <<Rat(3), 1>>
    /\ hist[1].n_updates = 2
    /\ kl_ctl[1].value = <<36, 125>>

(* ------------------------------- C13 ----------------------------------- *)
(* C13: an Adaptive configuration with target = 0 or a non-positive        *)
(* horizon is rejected at construction, so no update is ever called on     *)
(* such a controller and no update divides by zero.                        *)
C13_FailFast ==
    LET invalid == /\ config.target # None
                   /\ \/ config.target = Rat(0)
                      \/ ~RatLess(Rat(0), config.horizon)
    IN  /\ pc[1] # "ZeroDivisionError"
        /\ invalid => hist[1].n_updates = 0

(* ------------------------------- C14 ----------------------------------- *)
GaeDone == pc \in {"whiten", "forward"}
GenLen == Len(store.all_values[1])
AllZeroRewards == \A b \in BatchRows : \A t \in 1..GenLen : store.all_rewards[b][t] = 0
AllZeroValues == \A b \in BatchRows : \A t \in 1..GenLen : store.all_values[b][t] = 0
ConstantValues ==
    \A b \in BatchRows : \A t \in 1..GenLen : store.all_values[b][t] = store.all_values[b][1]

(* The advantages line 82 produced (line 85 rebinds the name). *)
Unwhitened ==
    IF pc = "whiten" THEN hist.advantages
    ELSE GaeAdvantages(config, store)

(* The claim as stated: all-zero rewards and values constant over time     *)
(* give advantages that are all 0 and returns equal to the values.         *)
C14_ZeroAdvantagesConstantValues ==
    (GaeDone /\ AllZeroRewards /\ ConstantValues) =>
        \A b \in BatchRows : \A t \in 1..GenLen :
            /\ pc = "whiten" => hist.advantages[b][t] = Rat(0)
            /\ hist.returns[b][t] = Rat(store.all_values[b][t])

(* C14 (amended): all-zero rewards and all-zero values give, for every     *)
(* gen_len, gamma and lam, advantages that are exactly 0 at every position *)
(* before whitening and returns equal to the values.                       *)
C14_ZeroAdvantagesZeroValues ==
    (GaeDone /\ AllZeroRewards /\ AllZeroValues) =>
        \A b \in BatchRows : \A t \in 1..GenLen :
            /\ pc = "whiten" => hist.advantages[b][t] = Rat(0)
            /\ hist.returns[b][t] = Rat(store.all_values[b][t])

(* the longest all-zero batch, with discounting, right after the loop *)
C14_Witness ==
    /\ pc = "whiten"
    /\ AllZeroRewards /\ AllZeroValues
    /\ GenLen = MaxGenLen
    /\ config.gamma = <<1, 2>> /\ config.lam = <<1, 2>>
    /\ hist.returns[2][1] = Rat(0)

(* ------------------------------- C15 ----------------------------------- *)
(* The backward recurrence written out: lastgae is 0 past the end and the  *)
(* next value is 0 at the last position.                                   *)
RECURSIVE C15_Gae(_, _)
C15_Gae(b, t) ==
    IF t > GenLen THEN Rat(0)
    ELSE LET next  == IF t = GenLen THEN 0 ELSE store.all_values[b][t + 1]
             delta == RatSub(RatAdd(Rat(store.all_rewards[b][t]),
                                    RatMul(config.gamma, Rat(next))),
                             Rat(store.all_values[b][t]))
         IN  RatAdd(delta, RatMul(RatMul(config.gamma, config.lam), C15_Gae(b, t + 1)))

C15_StateInv ==
    GaeDone =>
        \A b \in BatchRows : \A t \in 1..GenLen :
            /\ hist.returns[b][t] = RatAdd(C15_Gae(b, t), Rat(store.all_values[b][t]))
            /\ pc = "whiten" => hist.advantages[b][t] = C15_Gae(b, t)

C15_Step == pc = "whiten" => hist'.returns = hist.returns

(* C15: returns[t] = advantages[t] + old_values[t] at every position, the  *)
(* advantages being the unwhitened outputs of the backward recurrence;     *)
(* whitening leaves the returns as they were.                              *)
C15_ReturnsInvariant == []C15_StateInv /\ [][C15_Step]_vars

(* whitening has changed the advantages of a batch with different values   *)
(* and rewards in its rows                                                 *)
C15_Witness ==
    /\ pc = "forward"
    /\ GenLen = MaxGenLen
    /\ store.all_values[1] # store.all_values[2]
    /\ store.all_rewards[1] # store.all_rewards[2]
    /\ ~ConstantValues
    /\ hist.advantages.centered[1] # hist.advantages.centered[2]
    /\ hist.advantages.centered[1][1] # hist.returns[1][1]

(* ------------------------------- C16 ----------------------------------- *)
RECURSIVE RewardsFrom(_, _)
RewardsFrom(b, t) ==
    IF t > GenLen THEN 0 ELSE store.all_rewards[b][t] + RewardsFrom(b, t + 1)

(* C16: with gamma = 1, lam = 1 and all values zero the unwhitened         *)
(* advantage at t is the sum of the rewards from t on, in every row, and   *)
(* the returns are the same numbers; rewards [[1,0,0],[0,0,1]] give        *)
(* [1,0,0] and [1,1,1].                                                    *)
C16_RewardToGo ==
    (GaeDone /\ config.gamma = Rat(1) /\ config.lam = Rat(1) /\ AllZeroValues) =>
        /\ \A b \in BatchRows : \A t \in 1..GenLen :
               /\ Unwhitened[b][t] = Rat(RewardsFrom(b, t))
               /\ hist.returns[b][t] = Rat(RewardsFrom(b, t))
        /\ (store.all_rewards = <<(<<1, 0, 0>>), (<<0, 0, 1>>)>>) =>
               /\ Unwhitened = <<(<<Rat(1), Rat(0), Rat(0)>>), (<<Rat(1), Rat(1), Rat(1)>>)>>
               /\ hist.returns = <<(<<Rat(1), Rat(0), Rat(0)>>), (<<Rat(1), Rat(1), Rat(1)>>)>>

(* the scenario of the two trajectories [1,0,0] and [0,0,1] *)
C16_Witness ==
    /\ pc = "whiten"
    /\ config.gamma = Rat(1) /\ config.lam = Rat(1)
    /\ AllZeroValues
    /\ store.all_rewards = <<(<<1, 0, 0>>), (<<0, 0, 1>>)>>
    /\ hist.advantages[2] = <<Rat(1), Rat(1), Rat(1)>>

(* ------------------------------- C17 ----------------------------------- *)
Elems == 1..Len(store.all_values)
SqErr(x, i) == (x[i] - store.returns[i]) * (x[i] - store.returns[i])

(* sum over the elements of (old_value - returns)^2 *)
RECURSIVE OldSqErrSum(_)
OldSqErrSum(n) == IF n = 0 THEN 0 ELSE OldSqErrSum(n - 1) + SqErr(store.all_values, n)

(* sum over the elements of max((new_value - returns)^2, (old_value - returns)^2) *)
RECURSIVE WorstSqErrSum(_)
WorstSqErrSum(n) ==
    IF n = 0 THEN 0
    ELSE WorstSqErrSum(n - 1) +
         (IF SqErr(hist.vpred, n) > SqErr(store.all_values, n)
          THEN SqErr(hist.vpred, n) ELSE SqErr(store.all_values, n))

(* The claim as stated: with cliprange_value = 0 the clipped value is the  *)
(* old value and the value loss is the same for every new_value, that is,  *)
(* it is the loss new_value = old_value gives, 0.5 * mean((old_value -     *)
(* returns)^2).                                                            *)
C17_LossIgnoresNewValue ==
    (pc = "done" /\ config.cliprange_value = 0) =>
        /\ \A i \in Elems : hist.vpredclipped[i] = store.all_values[i]
        /\ hist.vf_loss[1] * 2 * Len(store.all_values) = OldSqErrSum(Len(store.all_values)) * hist.vf_loss[2]

(* C17 (amended): with cliprange_value = 0 the clipped value is the old    *)
(* value at every element and the value loss is                            *)
(* 0.5 * mean(max((new_value - returns)^2, (old_value - returns)^2)): it   *)
(* is never below 0.5 * mean((old_value - returns)^2) and equals it when   *)
(* no new_value is farther from its return than the old value is.          *)
C17_LossWithZeroClipRange ==
    (pc = "done" /\ config.cliprange_value = 0) =>
        LET n == Len(store.all_values)
        IN  /\ \A i \in Elems : hist.vpredclipped[i] = store.all_values[i]
            /\ hist.vf_loss[2] > 0
            /\ hist.vf_loss[1] * 2 * n = WorstSqErrSum(n) * hist.vf_loss[2]
            /\ hist.vf_loss[1] * 2 * n >= OldSqErrSum(n) * hist.vf_loss[2]
            /\ (\A i \in Elems : SqErr(hist.vpred, i) <= SqErr(store.all_values, i)) =>
                   hist.vf_loss[1] * 2 * n = OldSqErrSum(n) * hist.vf_loss[2]

(* a new value that differs from the old one yet is no farther from the    *)
(* return: the loss is the old value's                                     *)
C17_Witness ==
    /\ pc = "done" /\ config.cliprange_value = 0
    /\ Len(store.all_values) = MaxElems
    /\ \A i \in Elems : SqErr(hist.vpred, i) <= SqErr(store.all_values, i)
    /\ hist.vpred[1] # store.all_values[1]
    /\ hist.vf_loss # Rat(0)

(* ------------------------------- C18 ----------------------------------- *)
(* What post_backward_callback read was written by pass number ppo_epochs  *)
(* over the mini-batch just optimized.                                     *)
C18_ReadFresh(w) ==
    pc[w] \in {"wait_step", "in_wait_step"} =>
        /\ logs[w] = <<hist[w].n_batches>>
        /\ hist[w].kl_rec = <<hist[w].update_args[1], hist[w].n_batches, config.ppo_epochs>>
        /\ hist[w].batch_passes >= 1
        /\ hist[w].last = "eval" =>
               LET rec == hist[w].log[Len(hist[w].log)]
               IN  /\ rec.batch = hist[w].n_batches
                   /\ rec.kl_coef = kl_ctl[w].value
                   /\ rec.step = iter_count[w]

(* C18: whenever POST_STEP runs, the payload and the mean KL it reads are  *)
(* set, and were written by the final pass over the mini-batch just        *)
(* optimized; the log record carries the coefficient after this            *)
(* mini-batch's update and the current iter_count.                         *)
C18_PayloadFresh ==
    \A w \in Workers :
        /\ hist[w].last # "AttributeError"
        /\ C18_ReadFresh(w)

(* ------------------------------- C19 ----------------------------------- *)
(* C19: once a pass has returned a non-finite loss, the process performs   *)
(* no optimizer step, no iter_count increment and no controller update     *)
(* any more.                                                               *)
C19_DivergenceIsFatal ==
    \A w \in Workers :
        hist[w].diverged_at # <<>> =>
            /\ hist[w].n_opt = hist[w].diverged_at[1]
            /\ iter_count[w] = hist[w].diverged_at[2]
            /\ hist[w].n_updates = hist[w].diverged_at[3]

(* ------------------------------- C20 ----------------------------------- *)
(* ppo_epochs >= 1 and every traversal of the loader yields a mini-batch *)
C20_Pre == config.ppo_epochs >= 1 /\ NumBatches(config.num_rollouts) >= 1

(* max(epochs + 1, ceil(total_steps / ppo_epochs)) *)
C20_MaxEpochs ==
    LET by_steps == (config.total_steps + config.ppo_epochs - 1) \div config.ppo_epochs
    IN  IF config.epochs + 1 >= by_steps THEN config.epochs + 1 ELSE by_steps

C20_AllDone == \A w \in Workers : pc[w] = "done"

C20_Bounded ==
    \A w \in Workers :
        (C20_Pre /\ Started(w)) =>
            /\ epoch[w] <= C20_MaxEpochs
            /\ hist[w].n_traversals <= C20_MaxEpochs

(* C20: with ppo_epochs >= 1, at least one mini-batch per traversal and no *)
(* worker hanging, every worker's learn() eventually returns, and no       *)
(* worker runs more than max(epochs + 1, ceil(total_steps / ppo_epochs))   *)
(* epochs.                                                                 *)
C20_Terminates == (C20_Pre => <>C20_AllDone) /\ []C20_Bounded

(* every worker has returned after exactly the bound's epochs, the bound   *)
(* coming from total_steps                                                 *)
C20_Witness ==
    /\ C20_Pre
    /\ C20_AllDone
    /\ config.epochs = 0
    /\ C20_MaxEpochs = 2
    /\ \A w \in Workers : epoch[w] = C20_MaxEpochs

====
